---- MODULE Spec2Model ----
(***************************************************************************)
(* Model of koe's voice pipeline (src-tauri/src/voice.rs): the capture     *)
(* session (start_capture / stop_capture, the cpal input callback and the  *)
(* stream error callback), the per-segment transcription workers, the      *)
(* transcription router and the configuration stores.                      *)
(*                                                                         *)
(* Representation choices:                                                 *)
(*  - A sample sequence (Vec<f32>) is kept run-length encoded: a sequence  *)
(*    of runs [v |-> amplitude, n |-> number of consecutive samples].      *)
(*    Adjacent runs of one amplitude are merged, so one Vec has one        *)
(*    representation.  Lengths and sample rates are the real ones.         *)
(*  - Amplitudes are integers in units of 1/1000 of full scale; sums are   *)
(*    exact (the f32 rounding of the source is not modelled).              *)
(*  - Option<T> is the value None or the value itself; "no stream" is 0.   *)
(*  - A command thread is one of Threads; STREAM_HANDLE is thread_local,   *)
(*    so it is a function of the thread.                                   *)
(*  - Steps of one call that touch only what the calling thread can see    *)
(*    are taken together with the next step that other threads can see.    *)
(*                                                                         *)
(* Specifications:                                                         *)
(*  - Spec: the capture session under calls from two threads.              *)
(*  - PipelineSpec: capture, workers and configuration, commands called    *)
(*    from one thread; FairPipelineSpec adds that workers make progress.   *)
(*  - RouterSpec: the transcription of one segment under every             *)
(*    configuration.                                                       *)
(***************************************************************************)
EXTENDS Integers, Sequences, FiniteSets, Bags, TLC

VARIABLES
    CAPTURING,       \* static CAPTURING: AtomicBool
    AUDIO_BUFFER,    \* [samples, sample_rate], behind a Mutex
    WHISPER_CONFIG,  \* the transcription configuration, behind a Mutex
    configLock,      \* holder of WHISPER_CONFIG's Mutex: 0, or a worker index
    DEVICE_CONFIG,   \* [selected_device]
    STREAM_HANDLE,   \* thread_local slot: thread -> stream id, 0 when None
    streams,         \* the cpal streams built so far: id -> [status, channels, rate,
                     \* cb, data], cb the position of the stream's input callback
                     \* and data the argument of the invocation in progress
    pc,              \* thread -> position inside start_capture / stop_capture
    returned,        \* the return the last step made, if it was one: [thread, at],
                     \* at the source line of the return
    loc,             \* thread -> locals of the call in progress
    workers,         \* spawn_blocking tasks, in spawn order
    events,          \* bag of the events handed to app.emit_to
    whisper_local,   \* cargo feature "whisper-local" of the build
    ncalls,          \* start_capture and stop_capture calls made so far
    ncallbacks,      \* input callback invocations that went past the CAPTURING check
    call             \* the last call of a function taken on its own (get_input_device,
                     \* resample, samples_to_wav): its arguments and what it did

vars == <<CAPTURING, AUDIO_BUFFER, WHISPER_CONFIG, configLock, DEVICE_CONFIG,
          STREAM_HANDLE, streams, pc, returned, loc, workers, events,
          whisper_local, ncalls, ncallbacks, call>>

None == "None"

(* ------------------------------ bounds -------------------------------- *)

\* cpal streams built in one run
MaxStreams == 2
\* segments dispatched in one run
MaxSegments == 2
\* stream error callbacks in one run
MaxStreamErrors == 1
\* start_capture and stop_capture calls in one run
MaxCalls == 3
\* input callback invocations that go past the CAPTURING check in one run
MaxCallbacks == 2
\* samples in the input of a function taken on its own
MaxSamples == 40

Threads == {"t1", "t2"}
StreamIds == 1..MaxStreams

\* amplitudes a channel delivers, in 1/1000 of full scale
Amps == {0, 12}
\* the audio one callback invocation delivers, in half seconds
DataHalves == {1, 2}

(* ---------------------------- the hardware ---------------------------- *)

\* What cpal's host answers at one call: the enumerated input devices, whether
\* the enumeration itself works, the default input device, and whether
\* supported_input_configs() works.
HostStates ==
    { [inputs |-> {"Built-in Mic", "USB Mic"}, enum_ok |-> TRUE,
       default |-> "Built-in Mic", configs_ok |-> TRUE],
      [inputs |-> {"Built-in Mic", "USB Mic"}, enum_ok |-> TRUE,
       default |-> "USB Mic", configs_ok |-> TRUE],
      [inputs |-> {"Built-in Mic", "Line In"}, enum_ok |-> TRUE,
       default |-> "Line In", configs_ok |-> TRUE],
      [inputs |-> {"Built-in Mic"}, enum_ok |-> TRUE,
       default |-> "Built-in Mic", configs_ok |-> FALSE],
      [inputs |-> {"Built-in Mic"}, enum_ok |-> FALSE,
       default |-> "Built-in Mic", configs_ok |-> TRUE],
      [inputs |-> {}, enum_ok |-> TRUE,
       default |-> None, configs_ok |-> TRUE] }

\* The supported input configurations of each device, in enumeration order.
SupportedConfigs(device) ==
    CASE device = "Built-in Mic" ->
            << [channels |-> 2, min_rate |-> 48000, max_rate |-> 48000] >>
      [] device = "USB Mic" ->
            << [channels |-> 2, min_rate |-> 44100, max_rate |-> 48000],
               [channels |-> 1, min_rate |-> 8000,  max_rate |-> 16000] >>
      [] OTHER -> << >>

DeviceSelections == {None, "USB Mic", "Ghost Mic"}

(* ------------------------- sample sequences --------------------------- *)

RECURSIVE SamplesLen(_)
\* Vec::len of a run-length encoded sample sequence
SamplesLen(samples) ==
    IF samples = << >> THEN 0
    ELSE samples[1].n + SamplesLen(Tail(samples))

RECURSIVE SumSquares(_)
\* samples.iter().map(|s| s * s).sum()
SumSquares(samples) ==
    IF samples = << >> THEN 0
    ELSE samples[1].v * samples[1].v * samples[1].n + SumSquares(Tail(samples))

\* push n samples of amplitude v
Extend(samples, v, n) ==
    IF n = 0 THEN samples
    ELSE IF samples # << >> /\ samples[Len(samples)].v = v
         THEN [samples EXCEPT ![Len(samples)].n = @ + n]
         ELSE Append(samples, [v |-> v, n |-> n])

\* The callback's conversion to mono of one frame (one amplitude per channel).
Downmix(channels, frame) ==
    IF channels = 2 THEN (frame[1] + frame[2]) \div 2
    ELSE IF channels = 1 THEN frame[1]
    ELSE frame[1]

\* 0.01, in 1/1000 of full scale
SilenceThreshold == 10

\* rms > 0.01, with rms = sqrt(sum of squares / len); false for an empty Vec
\* (0.0 / 0.0 is NaN, and NaN > 0.01 is false)
RmsExceedsFirst(samples) ==
    samples # << >> /\ samples[1].v > SilenceThreshold
RmsExceeds(samples) ==
    SumSquares(samples) > SilenceThreshold * SilenceThreshold * SamplesLen(samples)

(* ------------------------- device resolution -------------------------- *)

\* get_input_device(): the selected device when it is enumerated, else the
\* host's default input device, else an error.
NoInputDevice == "No input device available"
GetInputDeviceNoFallback(selected, host) ==
    IF selected # None /\ ~host.enum_ok
    THEN [ok |-> FALSE, device |-> None, err |-> "enumeration failed"]
    ELSE IF selected # None /\ selected \in host.inputs
    THEN [ok |-> TRUE, device |-> selected, err |-> None]
    ELSE IF selected # None \/ host.default = None
    THEN [ok |-> FALSE, device |-> None, err |-> NoInputDevice]
    ELSE [ok |-> TRUE, device |-> host.default, err |-> None]
GetInputDevice(selected, host) ==
    IF selected # None /\ ~host.enum_ok
    THEN [ok |-> FALSE, device |-> None, err |-> "enumeration failed"]
    ELSE IF selected # None /\ selected \in host.inputs
    THEN [ok |-> TRUE, device |-> selected, err |-> None]
    ELSE IF host.default = None
    THEN [ok |-> FALSE, device |-> None, err |-> NoInputDevice]
    ELSE [ok |-> TRUE, device |-> host.default, err |-> None]

RECURSIVE MaxByRate(_)
\* Iterator::max_by_key(|c| c.max_sample_rate()): the last of the maxima
MaxByRate(configs) ==
    IF Len(configs) = 1 THEN configs[1]
    ELSE LET rest == MaxByRate(Tail(configs))
         IN  IF configs[1].max_rate > rest.max_rate THEN configs[1] ELSE rest

IsMono(c) == c.channels = 1

\* The supported configuration start_capture settles on: the mono one with
\* the highest maximum rate, else the first one of any kind.
SupportedConfig(device, host) ==
    IF ~host.configs_ok THEN [ok |-> FALSE]
    ELSE LET all  == SupportedConfigs(device)
             mono == SelectSeq(all, IsMono)
         IN  IF mono # << >> THEN [ok |-> TRUE, config |-> MaxByRate(mono)]
             ELSE IF all # << >> THEN [ok |-> TRUE, config |-> all[1]]
             ELSE [ok |-> FALSE]

\* 16 kHz, then 44.1 kHz, then 48 kHz, then the maximum of the range
TargetRate(min_rate, max_rate) ==
    IF min_rate <= 16000 /\ 16000 <= max_rate THEN 16000
    ELSE IF min_rate <= 44100 /\ 44100 <= max_rate THEN 44100
    ELSE IF min_rate <= 48000 /\ 48000 <= max_rate THEN 48000
    ELSE max_rate

(* ----------------------- the transcription router --------------------- *)

\* the rate the engines expect
WhisperRate == 16000

\* Vec::len of resample(samples, from_rate, to_rate) for a Vec of length n
ResampledLenRoundUp(n, from_rate, to_rate) ==
    IF from_rate = to_rate THEN n ELSE (n * to_rate + from_rate - 1) \div from_rate
ResampledLen(n, from_rate, to_rate) ==
    IF from_rate = to_rate THEN n ELSE (n * to_rate) \div from_rate

\* resample's source indices for output sample i of an input of n samples:
\* idx_floor = (i * ratio).floor(), idx_ceil = (idx_floor + 1).min(n - 1).
\* The ratios of the model (3, 1/2) are exact in f64.
IdxFloor(i, from_rate, to_rate) == (i * from_rate) \div to_rate
IdxCeil(i, n, from_rate, to_rate) ==
    LET next == IdxFloor(i, from_rate, to_rate) + 1
    IN  IF next < n - 1 THEN next ELSE n - 1

\* What resample does with an input of n samples: the length of its output
\* and, for each output index, the two input indices it reads.  With equal
\* rates it copies the input and indexes nothing.
Resample(n, from_rate, to_rate) ==
    LET len == ResampledLen(n, from_rate, to_rate)
        out == IF from_rate = to_rate THEN {} ELSE 0..(len - 1)
    IN  [len |-> len,
         idx_floor |-> [i \in out |-> IdxFloor(i, from_rate, to_rate)],
         idx_ceil |-> [i \in out |-> IdxCeil(i, n, from_rate, to_rate)]]

\* samples_to_wav: the WavSpec it builds, and the bytes hound's writer leaves
\* in the cursor.  WavWriter::new writes the RIFF/fmt/data header, each
\* write_sample appends one little-endian i16, finalize patches the two
\* length fields of the header in place.  A sample is a run of k equal values
\* in thousandths of full scale.
WavSpec == [channels |-> 1, bits_per_sample |-> 16, sample_format |-> "Int"]
WavHeaderLen == 44

\* (sample * 32767.0).clamp(-32768.0, 32767.0) as i16; `as` truncates toward 0
SampleI16(amp) ==
    LET scaled == amp * 32767
        whole == IF scaled >= 0 THEN scaled \div 1000 ELSE 0 - ((0 - scaled) \div 1000)
    IN  IF whole < -32768 THEN -32768 ELSE IF whole > 32767 THEN 32767 ELSE whole

\* write_sample of an i16 into a 16-bit writer: two bytes, low byte first
SampleBytesOne(v) == << v % 256 >>
SampleBytes(v) == << v % 256, (v % 65536) \div 256 >>

RECURSIVE WavData(_, _)
WavData(k, amp) ==
    IF k = 0 THEN << >> ELSE SampleBytes(SampleI16(amp)) \o WavData(k - 1, amp)

\* No step fails on an in-memory cursor with a 16-bit integer spec, so the
\* result is Ok with the cursor's bytes: the header, then the data.
SamplesToWav(k, amp) ==
    LET data == WavData(k, amp)
    IN  [ok |-> WavSpec.bits_per_sample = 16 /\ WavSpec.sample_format = "Int",
         header_len |-> WavHeaderLen,
         data |-> data,
         len |-> WavHeaderLen + Len(data)]

\* Vec::len of samples_16k in transcribe_audio
Samples16kLen(n, sample_rate) ==
    IF sample_rate # WhisperRate THEN ResampledLen(n, sample_rate, WhisperRate)
    ELSE n

\* The backend transcribe_audio calls under a configuration: the local engine,
\* one of the two remote providers, or none (the placeholder branch).
RouteNoFallback(config, feature) ==
    IF feature /\ config.use_local /\ config.model_path # None THEN "local"
    ELSE IF config.provider = "groq"
         THEN IF config.groq_api_key # None THEN "groq" ELSE "placeholder"
         ELSE IF config.api_key # None THEN "openai" ELSE "placeholder"
Route(config, feature) ==
    IF feature /\ config.use_local /\ config.model_path # None THEN "local"
    ELSE IF config.provider = "groq"
         THEN IF config.groq_api_key # None THEN "groq"
              ELSE IF config.api_key # None THEN "openai"
              ELSE "placeholder"
         ELSE IF config.api_key # None THEN "openai" ELSE "placeholder"

\* The value of the placeholder branch for n16 samples at WhisperRate:
\* Ok(Some(text)) when n16 / 16000 > 0.5, else Ok(None).  The text carries the
\* duration, which is not modelled.
PlaceholderText == "[Audio - configure API key in Settings for transcription]"
PlaceholderAtLeast(n16) ==
    IF 2 * n16 >= WhisperRate
    THEN [ok |-> TRUE, text |-> PlaceholderText]
    ELSE [ok |-> TRUE, text |-> None]
Placeholder(n16) ==
    IF 2 * n16 > WhisperRate
    THEN [ok |-> TRUE, text |-> PlaceholderText]
    ELSE [ok |-> TRUE, text |-> None]

\* What a backend call can return: Ok(Some(text)), Ok(None) or Err(message)
\* (text holds the message of an Err).
BackendResults ==
    { [ok |-> TRUE,  text |-> "hello world"],
      [ok |-> TRUE,  text |-> "  "],
      [ok |-> TRUE,  text |-> None],
      [ok |-> FALSE, text |-> "API error 500"] }

\* transcript.trim().is_empty(), on the texts of the model
TrimIsEmpty(text) == text \in {"", " ", "  "}

Event(name, origin, seg) == [name |-> name, origin |-> origin, seg |-> seg]

\* The events the worker of segment w emits for the value transcribe_audio
\* returned: one transcript for a non-blank text, one error for an Err,
\* nothing for a blank text or no text.
WorkerEmitsBoth(result, w) ==
    IF result.ok
    THEN SetToBag({Event("voice:transcript", "worker", w)})
    ELSE SetToBag({Event("voice:error", "worker", w),
                   Event("voice:transcript", "worker", w)})
WorkerEmits(result, w) ==
    IF result.ok /\ result.text # None /\ ~TrimIsEmpty(result.text)
    THEN SetToBag({Event("voice:transcript", "worker", w)})
    ELSE IF result.ok THEN EmptyBag
    ELSE SetToBag({Event("voice:error", "worker", w)})

(* ------------------------------ the state ----------------------------- *)

\* data: &[f32] of one callback invocation: n frames, each the same frame
NoData == [n |-> 0, frame |-> << >>]
NoStream == [status |-> "none", channels |-> 0, rate |-> 0, cb |-> "idle", data |-> NoData]
NoLoc == [channels |-> 0, rate |-> 0, stream |-> 0, was_stopped |-> FALSE]

\* The returns of start_capture and stop_capture, by source line: Ok(()) at
\* 134 (already capturing), 279 (started) and 297 (stopped); Err at 137 (no
\* device), 150 (no configuration: the statement of lines 142-150), 266
\* (build_input_stream) and 268 (play).
StartOk == {134, 279}
StartErr == {137, 150, 266, 268}
NoRet == [thread |-> "none", at |-> 0]
NoCall == [fn |-> "none"]
Returned(t, at) == [thread |-> t, at |-> at]

DefaultWhisperConfig ==
    [api_key |-> None, use_local |-> FALSE, model_path |-> None,
     provider |-> "openai", model |-> "whisper-1", groq_api_key |-> None]

\* The statics as the process starts, before any command.
InitSession ==
    /\ CAPTURING = FALSE
    /\ AUDIO_BUFFER = [samples |-> << >>, sample_rate |-> 16000]
    /\ configLock = 0
    /\ DEVICE_CONFIG = [selected_device |-> None]
    /\ STREAM_HANDLE = [t \in Threads |-> 0]
    /\ streams = [s \in StreamIds |-> NoStream]
    /\ pc = [t \in Threads |-> "idle"]
    /\ loc = [t \in Threads |-> NoLoc]
    /\ events = EmptyBag
    /\ returned = NoRet
    /\ ncalls = 0
    /\ ncallbacks = 0
    /\ call = NoCall

\* The default build: the feature "whisper-local" is off.
Init ==
    /\ InitSession
    /\ WHISPER_CONFIG = DefaultWhisperConfig
    /\ workers = << >>
    /\ whisper_local = FALSE

Live(s) == streams[s].status = "live"
Built == {s \in StreamIds : streams[s].status # "none"}
Starting == {t \in Threads : pc[t] = "start_stream"}
\* the id the next build_input_stream gets
NextStream == Cardinality(Built) + 1

\* drop(stream): the stream stops and delivers no further callback
Drop(strs, s) ==
    IF s = 0 THEN strs ELSE [strs EXCEPT ![s] = [NoStream EXCEPT !.status = "dropped"]]
\* cpal joins the stream's callback before drop returns
CanDrop(s) == IF s = 0 THEN TRUE ELSE streams[s].cb = "idle"

Emit(e) == events' = events (+) SetToBag({e})

(* ---------------------------- start_capture --------------------------- *)

\* if CAPTURING.load(SeqCst) { return Ok(()) }
AlreadyCapturingNever == FALSE
AlreadyCapturing == CAPTURING

\* The call, up to the negotiated configuration: the early return, device
\* resolution and configuration negotiation (lines 133-173).
StartCall(t) ==
    /\ UNCHANGED call
    /\ pc[t] = "idle"
    /\ ncalls < MaxCalls
    /\ CAPTURING \/ Cardinality(Built) + Cardinality(Starting) < MaxStreams
    /\ ncalls' = ncalls + 1
    /\ UNCHANGED <<CAPTURING, AUDIO_BUFFER, WHISPER_CONFIG, configLock, DEVICE_CONFIG,
                   STREAM_HANDLE, streams, workers, events, whisper_local, ncallbacks>>
    /\ IF AlreadyCapturing
       THEN /\ returned' = Returned(t, 134)
            /\ UNCHANGED <<pc, loc>>
       ELSE \E host \in HostStates :
            LET dev == GetInputDevice(DEVICE_CONFIG.selected_device, host)
                sc  == SupportedConfig(dev.device, host)
            IN  IF ~dev.ok
                THEN /\ returned' = Returned(t, 137)
                     /\ UNCHANGED <<pc, loc>>
                ELSE IF ~sc.ok
                THEN /\ returned' = Returned(t, 150)
                     /\ UNCHANGED <<pc, loc>>
                ELSE /\ pc' = [pc EXCEPT ![t] = "start_stream"]
                     /\ loc' = [loc EXCEPT ![t] =
                                 [NoLoc EXCEPT !.channels = sc.config.channels,
                                               !.rate = TargetRate(sc.config.min_rate,
                                                                   sc.config.max_rate)]]
                     /\ returned' = NoRet

\* buffer.sample_rate = actual_sample_rate; buffer.samples.clear()
ResetBuffer(rate) == [samples |-> << >>, sample_rate |-> rate]

\* Lines 175-266, build_input_stream fails: the buffer is reset, no stream.
StartBuildFails(t) ==
    /\ UNCHANGED call
    /\ pc[t] = "start_stream"
    /\ AUDIO_BUFFER' = ResetBuffer(loc[t].rate)
    /\ pc' = [pc EXCEPT ![t] = "idle"]
    /\ loc' = [loc EXCEPT ![t] = NoLoc]
    /\ returned' = Returned(t, 266)
    /\ UNCHANGED <<CAPTURING, WHISPER_CONFIG, configLock, DEVICE_CONFIG, STREAM_HANDLE,
                   streams, workers, events, whisper_local, ncalls, ncallbacks>>

\* The stream whose play() failed, as start_capture leaves it: dropped.
FailedStream(channels, rate) == [NoStream EXCEPT !.status = "dropped"]

\* Where start_capture leaves the stream whose play() failed: in no slot.
SlotAfterPlayFailsStored(slot, stream) == stream
SlotAfterPlayFails(slot, stream) == slot

\* Lines 175-268, stream.play() fails: the buffer is reset, the stream built
\* is dropped on return.
StartPlayFails(t) ==
    /\ UNCHANGED call
    /\ pc[t] = "start_stream"
    /\ AUDIO_BUFFER' = ResetBuffer(loc[t].rate)
    /\ streams' = [streams EXCEPT ![NextStream] = FailedStream(loc[t].channels, loc[t].rate)]
    /\ STREAM_HANDLE' = [STREAM_HANDLE EXCEPT ![t] = SlotAfterPlayFails(@, NextStream)]
    /\ pc' = [pc EXCEPT ![t] = "idle"]
    /\ loc' = [loc EXCEPT ![t] = NoLoc]
    /\ returned' = Returned(t, 268)
    /\ UNCHANGED <<CAPTURING, WHISPER_CONFIG, configLock, DEVICE_CONFIG,
                   workers, events, whisper_local, ncalls, ncallbacks>>

\* Lines 175-268, the stream is built and plays: from here on its callbacks fire.
StartStream(t) ==
    /\ UNCHANGED call
    /\ pc[t] = "start_stream"
    /\ AUDIO_BUFFER' = ResetBuffer(loc[t].rate)
    /\ streams' = [streams EXCEPT ![NextStream] =
                     [status |-> "live", channels |-> loc[t].channels,
                      rate |-> loc[t].rate, cb |-> "idle", data |-> NoData]]
    /\ loc' = [loc EXCEPT ![t] = [NoLoc EXCEPT !.stream = NextStream]]
    /\ pc' = [pc EXCEPT ![t] = "start_store"]
    /\ returned' = NoRet
    /\ UNCHANGED <<CAPTURING, WHISPER_CONFIG, configLock, DEVICE_CONFIG,
                   STREAM_HANDLE, workers, events, whisper_local, ncalls, ncallbacks>>

\* Lines 270-279.  STREAM_HANDLE.with(|handle| *handle.borrow_mut() =
\* Some(stream)): the slot of the calling thread, and the stream it held, if
\* any, is dropped; CAPTURING.store(true); emit "voice:state" "listening".
\* The slot is visible to the calling thread alone, so the three are one step.
StartFinish(t) ==
    /\ UNCHANGED call
    /\ pc[t] = "start_store"
    /\ CanDrop(STREAM_HANDLE[t])
    /\ STREAM_HANDLE' = [STREAM_HANDLE EXCEPT ![t] = loc[t].stream]
    /\ streams' = Drop(streams, STREAM_HANDLE[t])
    /\ CAPTURING' = TRUE
    /\ Emit(Event("voice:state", "start", 0))
    /\ pc' = [pc EXCEPT ![t] = "idle"]
    /\ loc' = [loc EXCEPT ![t] = NoLoc]
    /\ returned' = Returned(t, 279)
    /\ UNCHANGED <<AUDIO_BUFFER, WHISPER_CONFIG, configLock, DEVICE_CONFIG,
                   workers, whisper_local, ncalls, ncallbacks>>

(* ----------------------------- stop_capture --------------------------- *)

\* CAPTURING.store(false).  loc.was_stopped remembers whether the session was
\* stopped, and no other call in progress, when the call began.
StopCall(t) ==
    /\ UNCHANGED call
    /\ pc[t] = "idle"
    /\ ncalls < MaxCalls
    /\ ncalls' = ncalls + 1
    /\ CAPTURING' = FALSE
    /\ pc' = [pc EXCEPT ![t] = "stop_drop"]
    /\ loc' = [loc EXCEPT ![t] = [NoLoc EXCEPT !.was_stopped =
                    ~CAPTURING /\ \A u \in Threads \ {t} : pc[u] = "idle"]]
    /\ returned' = NoRet
    /\ UNCHANGED <<AUDIO_BUFFER, WHISPER_CONFIG, configLock, DEVICE_CONFIG,
                   STREAM_HANDLE, streams, workers, events, whisper_local, ncallbacks>>

\* Lines 285-297.  STREAM_HANDLE.with(|handle| *handle.borrow_mut() = None):
\* the slot of the calling thread, whose stream, if any, is dropped; then
\* buffer.samples.clear().  The slot is visible to the calling thread alone,
\* so the two are one step.
StopFinish(t) ==
    /\ UNCHANGED call
    /\ pc[t] = "stop_drop"
    /\ CanDrop(STREAM_HANDLE[t])
    /\ STREAM_HANDLE' = [STREAM_HANDLE EXCEPT ![t] = 0]
    /\ streams' = Drop(streams, STREAM_HANDLE[t])
    /\ AUDIO_BUFFER' = [AUDIO_BUFFER EXCEPT !.samples = << >>]
    /\ pc' = [pc EXCEPT ![t] = "idle"]
    /\ loc' = [loc EXCEPT ![t] = NoLoc]
    /\ returned' = Returned(t, 297)
    /\ UNCHANGED <<CAPTURING, WHISPER_CONFIG, configLock, DEVICE_CONFIG,
                   workers, events, whisper_local, ncalls, ncallbacks>>

(* -------------------------- the input callback ------------------------ *)

\* let samples_per_chunk = buffer.sample_rate as usize * 1
SamplesPerChunk(sample_rate) == sample_rate * 1

\* buffer.samples.len() >= samples_per_chunk
WindowFullAtHalf(samples, sample_rate) ==
    2 * SamplesLen(samples) >= SamplesPerChunk(sample_rate)
WindowFull(samples, sample_rate) ==
    SamplesLen(samples) >= SamplesPerChunk(sample_rate)

\* The callback spawns a worker: the window is full and rms > 0.01.
Dispatches(samples, sample_rate) ==
    WindowFull(samples, sample_rate) /\ RmsExceeds(samples)

\* let audio_data = buffer.samples.clone(): what the spawned worker is given
AudioData(samples) == samples

\* buffer.samples after the callback: cleared when the window was full
AfterCallbackKeepsQuiet(samples, sample_rate) ==
    IF Dispatches(samples, sample_rate) THEN << >> ELSE samples
AfterCallback(samples, sample_rate) ==
    IF WindowFull(samples, sample_rate) THEN << >> ELSE samples

NewWorker(samples, sample_rate) ==
    [samples |-> samples, sample_rate |-> sample_rate, st |-> "spawned",
     backend |-> "none", result |-> [ok |-> TRUE, text |-> None]]

\* tauri::async_runtime::spawn_blocking, called by the callback while it holds
\* AUDIO_BUFFER's lock: the task joins the pool's queue behind those spawned
\* before it.  workers lists the tasks in the order they were spawned.
SpawnFirst(ws, worker) == << worker >> \o ws
Spawn(ws, worker) == Append(ws, worker)

\* Whether an invocation of the callback goes past line 190, given what
\* CAPTURING.load(SeqCst) read.
PassesCheckAlways(capturing) == TRUE
PassesCheck(capturing) == capturing

\* if !CAPTURING.load(SeqCst) { return; }
CallbackSkip(s) ==
    /\ UNCHANGED call
    /\ Live(s)
    /\ streams[s].cb = "idle"
    /\ ~PassesCheck(CAPTURING)
    /\ returned' = Returned("callback", 191)
    /\ UNCHANGED <<CAPTURING, AUDIO_BUFFER, WHISPER_CONFIG, configLock, DEVICE_CONFIG,
                   STREAM_HANDLE, streams, pc, loc, workers, events, whisper_local,
                   ncalls, ncallbacks>>

\* The callback is invoked with h half seconds of audio at the stream's rate,
\* every frame the same, passes the CAPTURING check and goes on to lock the
\* buffer.
CallbackEnter(s) ==
    /\ UNCHANGED call
    /\ Live(s)
    /\ streams[s].cb = "idle"
    /\ PassesCheck(CAPTURING)
    /\ ncallbacks < MaxCallbacks
    /\ ncallbacks' = ncallbacks + 1
    /\ \E h \in DataHalves, frame \in [1..streams[s].channels -> Amps] :
         streams' = [streams EXCEPT ![s].cb = "body",
                                    ![s].data = [n |-> (streams[s].rate * h) \div 2,
                                                 frame |-> frame]]
    /\ UNCHANGED <<CAPTURING, AUDIO_BUFFER, WHISPER_CONFIG, configLock, DEVICE_CONFIG,
                   STREAM_HANDLE, pc, loc, workers, events, whisper_local, ncalls>>
    /\ returned' = NoRet

\* buffer.samples after the callback's data is converted to mono and pushed
Appended(samples, channels, data) ==
    Extend(samples, Downmix(channels, data.frame), data.n)

\* Lines 194-259, under AUDIO_BUFFER's lock: the data is converted to mono and
\* appended; a full window is gated by its energy, dispatched or discarded,
\* and the buffer is cleared.
CallbackBody(s) ==
    /\ UNCHANGED call
    /\ streams[s].cb = "body"
    /\ LET appended == Appended(AUDIO_BUFFER.samples, streams[s].channels, streams[s].data)
           rate == AUDIO_BUFFER.sample_rate
       IN  /\ Dispatches(appended, rate) => Len(workers) < MaxSegments
           /\ workers' = IF Dispatches(appended, rate)
                         THEN Spawn(workers, NewWorker(AudioData(appended), rate))
                         ELSE workers
           /\ AUDIO_BUFFER' = [AUDIO_BUFFER EXCEPT
                                 !.samples = AfterCallback(appended, rate)]
    /\ streams' = [streams EXCEPT ![s].cb = "idle", ![s].data = NoData]
    /\ UNCHANGED <<CAPTURING, WHISPER_CONFIG, configLock, DEVICE_CONFIG,
                   STREAM_HANDLE, pc, loc, events, whisper_local, ncalls, ncallbacks>>
    /\ returned' = Returned("callback", 259)

StreamErrorEvent == Event("voice:error", "stream", 0)

\* What the stream's error callback does to the CAPTURING flag: nothing.
FlagAfterStreamError(capturing) == capturing

\* The stream's error callback (lines 261-264): it emits "voice:error".
StreamError(s) ==
    /\ UNCHANGED call
    /\ Live(s)
    /\ CopiesIn(StreamErrorEvent, events) < MaxStreamErrors
    /\ Emit(StreamErrorEvent)
    /\ CAPTURING' = FlagAfterStreamError(CAPTURING)
    /\ UNCHANGED <<AUDIO_BUFFER, WHISPER_CONFIG, configLock, DEVICE_CONFIG,
                   STREAM_HANDLE, streams, pc, loc, workers, whisper_local, ncalls, ncallbacks>>
    /\ returned' = NoRet

(* ------------------------ transcription workers ----------------------- *)

\* What a finished transcription does to the CAPTURING flag: nothing.
FlagAfterWorkerStops(capturing, result) == capturing /\ result.ok
FlagAfterWorker(capturing, result) == capturing

\* Whether the worker gives up on a stopped session: it never consults
\* CAPTURING.
CancelledWhenStopped(capturing) == ~capturing
Cancelled(capturing) == FALSE

FinishedOrRetried(worker, result) ==
    IF result.ok THEN [worker EXCEPT !.samples = << >>, !.st = "done", !.result = result]
    ELSE [worker EXCEPT !.st = "spawned"]
Finished(worker, result) ==
    [worker EXCEPT !.samples = << >>, !.st = "done", !.result = result]

\* transcribe_audio up to the backend call: resample, lock WHISPER_CONFIG,
\* route.  With no backend the placeholder branch returns at once, the lock
\* is released and the worker handles the result.
WorkerStart(w) ==
    /\ UNCHANGED call
    /\ w \in 1..Len(workers)
    /\ workers[w].st = "spawned"
    /\ ~Cancelled(CAPTURING)
    /\ configLock = 0
    /\ LET backend == Route(WHISPER_CONFIG, whisper_local)
           n16 == Samples16kLen(SamplesLen(workers[w].samples), workers[w].sample_rate)
       IN  IF backend = "placeholder"
           THEN /\ workers' = [workers EXCEPT ![w] =
                                 Finished([@ EXCEPT !.backend = backend], Placeholder(n16))]
                /\ events' = events (+) WorkerEmits(Placeholder(n16), w)
                /\ CAPTURING' = FlagAfterWorker(CAPTURING, Placeholder(n16))
                /\ UNCHANGED configLock
           ELSE /\ workers' = [workers EXCEPT ![w].st = "calling", ![w].backend = backend]
                /\ configLock' = w
                /\ UNCHANGED <<events, CAPTURING>>
    /\ UNCHANGED <<AUDIO_BUFFER, WHISPER_CONFIG, DEVICE_CONFIG,
                   STREAM_HANDLE, streams, pc, loc, whisper_local, ncalls, ncallbacks>>
    /\ returned' = NoRet

\* The backend call returns (the lock is released on return) and the worker
\* handles the result (lines 232-253).
WorkerReturn(w) ==
    /\ UNCHANGED call
    /\ w \in 1..Len(workers)
    /\ workers[w].st = "calling"
    /\ \E result \in BackendResults :
         /\ workers' = [workers EXCEPT ![w] = Finished(@, result)]
         /\ events' = events (+) WorkerEmits(result, w)
         /\ CAPTURING' = FlagAfterWorker(CAPTURING, result)
    /\ configLock' = 0
    /\ UNCHANGED <<AUDIO_BUFFER, WHISPER_CONFIG, DEVICE_CONFIG,
                   STREAM_HANDLE, streams, pc, loc, whisper_local, ncalls, ncallbacks>>
    /\ returned' = NoRet

(* ----------------------------- configuration -------------------------- *)

\* configure_whisper: provider and model are kept when passed as None.
Configured(config, api_key, use_local, model_path, provider, model, groq_api_key) ==
    [api_key |-> api_key, use_local |-> use_local, model_path |-> model_path,
     provider |-> IF provider # None THEN provider ELSE config.provider,
     model |-> IF model # None THEN model ELSE config.model,
     groq_api_key |-> groq_api_key]

ConfigureWhisper(api_key, use_local, model_path, provider, model, groq_api_key) ==
    /\ UNCHANGED call
    /\ configLock = 0
    /\ WHISPER_CONFIG' = Configured(WHISPER_CONFIG, api_key, use_local, model_path,
                                    provider, model, groq_api_key)
    /\ UNCHANGED <<CAPTURING, AUDIO_BUFFER, configLock, DEVICE_CONFIG, STREAM_HANDLE,
                   streams, pc, loc, workers, events, whisper_local, ncalls, ncallbacks>>
    /\ returned' = NoRet

\* The call of the repository's test test_configure_whisper.
SessionConfigCalls ==
    { <<"test-key", FALSE, None, None, None, None>> }

SetInputDevice(device_name) ==
    /\ UNCHANGED call
    /\ DEVICE_CONFIG' = [selected_device |-> device_name]
    /\ UNCHANGED <<CAPTURING, AUDIO_BUFFER, WHISPER_CONFIG, configLock, STREAM_HANDLE,
                   streams, pc, loc, workers, events, whisper_local, ncalls, ncallbacks>>
    /\ returned' = NoRet

(* --------------------------- the specifications ----------------------- *)

\* The capture session: start_capture and stop_capture called from any of the
\* command threads, the input callbacks and the error callbacks of the streams
\* built.  Segments are dispatched (workers are spawned); what the workers do
\* is the subject of PipelineSpec.
Next ==
    \/ \E t \in Threads : StartCall(t)
    \/ \E t \in Threads : StartBuildFails(t)
    \/ \E t \in Threads : StartPlayFails(t)
    \/ \E t \in Threads : StartStream(t)
    \/ \E t \in Threads : StartFinish(t)
    \/ \E t \in Threads : StopCall(t)
    \/ \E t \in Threads : StopFinish(t)
    \/ \E s \in StreamIds : CallbackSkip(s)
    \/ \E s \in StreamIds : CallbackEnter(s)
    \/ \E s \in StreamIds : CallbackBody(s)
    \/ \E s \in StreamIds : StreamError(s)

Spec == Init /\ [][Next]_vars

\* The pipeline from capture to events: the commands called from the main
\* thread, the callbacks, the transcription workers and configure_whisper.
MainThread == {"t1"}

PipelineNext ==
    \/ \E t \in MainThread : StartCall(t)
    \/ \E t \in MainThread : StartBuildFails(t)
    \/ \E t \in MainThread : StartPlayFails(t)
    \/ \E t \in MainThread : StartStream(t)
    \/ \E t \in MainThread : StartFinish(t)
    \/ \E t \in MainThread : StopCall(t)
    \/ \E t \in MainThread : StopFinish(t)
    \/ \E s \in StreamIds : CallbackSkip(s)
    \/ \E s \in StreamIds : CallbackEnter(s)
    \/ \E s \in StreamIds : CallbackBody(s)
    \/ \E s \in StreamIds : StreamError(s)
    \/ \E w \in 1..MaxSegments : WorkerStart(w)
    \/ \E w \in 1..MaxSegments : WorkerReturn(w)
    \/ \E c \in SessionConfigCalls : ConfigureWhisper(c[1], c[2], c[3], c[4], c[5], c[6])
    \/ \E d \in DeviceSelections : SetInputDevice(d)

PipelineSpec == Init /\ [][PipelineNext]_vars

\* The workers are tokio blocking tasks: each one spawned is run by the pool,
\* and a backend call returns.
FairPipelineSpec ==
    /\ PipelineSpec
    /\ \A w \in 1..MaxSegments : WF_vars(WorkerStart(w))
    /\ \A w \in 1..MaxSegments : WF_vars(WorkerReturn(w))

\* The router: one segment of one second has been dispatched by a session
\* since stopped, under any configuration configure_whisper can have stored
\* and either build; the worker transcribes it, and configure_whisper is
\* called again.
ApiKeys == {None, "sk-test"}
GroqKeys == {None, "gsk-test"}
ModelPaths == {None, "ggml-base.bin"}
Providers == {"openai", "groq", "local"}

RouterConfigs ==
    [api_key : ApiKeys, use_local : BOOLEAN, model_path : ModelPaths,
     provider : Providers, model : {"whisper-1"}, groq_api_key : GroqKeys]

RouterSegments ==
    { [samples |-> << [v |-> 12, n |-> 16000] >>, sample_rate |-> 16000],
      [samples |-> << [v |-> 12, n |-> 48000] >>, sample_rate |-> 48000] }

RouterConfigCalls ==
    { <<"test-key", FALSE, None, None, None, None>>,
      <<None, TRUE, "ggml-base.bin", "groq", "whisper-large-v3", "gsk-test">> }

RouterInit ==
    /\ InitSession
    /\ WHISPER_CONFIG \in RouterConfigs
    /\ whisper_local \in BOOLEAN
    /\ \E seg \in RouterSegments : workers = << NewWorker(seg.samples, seg.sample_rate) >>

RouterNext ==
    \/ \E w \in 1..MaxSegments : WorkerStart(w)
    \/ \E w \in 1..MaxSegments : WorkerReturn(w)
    \/ \E c \in RouterConfigCalls : ConfigureWhisper(c[1], c[2], c[3], c[4], c[5], c[6])

RouterSpec == RouterInit /\ [][RouterNext]_vars

\* transcribe_audio as a function of its arguments: it is called with a
\* sample sequence of any length (none, 0.3 s, 0.5 s, one sample more, 0.6 s,
\* 1 s) at 16 kHz or 48 kHz, under any configuration and either build.
TranscribeSegments ==
    { [samples |-> IF n = 0 THEN << >> ELSE << [v |-> 12, n |-> n] >>, sample_rate |-> 16000] :
         n \in {0, 4800, 8000, 8001, 9600, 16000} }
    \cup
    { [samples |-> << [v |-> 12, n |-> n] >>, sample_rate |-> 48000] :
         n \in {14400, 24000, 24002, 24003, 28800, 48000} }

TranscribeInit ==
    /\ InitSession
    /\ WHISPER_CONFIG \in RouterConfigs
    /\ whisper_local \in BOOLEAN
    /\ \E seg \in TranscribeSegments : workers = << NewWorker(seg.samples, seg.sample_rate) >>

TranscribeSpec == TranscribeInit /\ [][RouterNext]_vars

\* get_input_device as a function of the stored selection and of what the
\* host answers: any set of enumerated devices, an enumeration that works or
\* fails, any default device or none.
Devices == {"Built-in Mic", "USB Mic", "Line In"}
AllHosts ==
    { h \in [inputs : SUBSET Devices, enum_ok : BOOLEAN,
              default : Devices \cup {None}, configs_ok : {TRUE}] :
         h.default \in h.inputs \cup {None} }

ResolveDevice ==
    /\ \E host \in AllHosts :
         call' = [fn |-> "get_input_device", selected |-> DEVICE_CONFIG.selected_device,
                  host |-> host,
                  result |-> GetInputDevice(DEVICE_CONFIG.selected_device, host)]
    /\ returned' = NoRet
    /\ UNCHANGED <<CAPTURING, AUDIO_BUFFER, WHISPER_CONFIG, configLock, DEVICE_CONFIG,
                   STREAM_HANDLE, streams, pc, loc, workers, events, whisper_local,
                   ncalls, ncallbacks>>

DeviceNext ==
    \/ \E d \in DeviceSelections : SetInputDevice(d)
    \/ ResolveDevice

DeviceSpec == Init /\ [][DeviceNext]_vars

\* resample as a function of its arguments: any input length up to
\* MaxSamples, from the rates a device can run at to 16 kHz.
FromRates == {8000, 16000, 48000}

ResampleCall ==
    /\ \E n \in 0..MaxSamples, from_rate \in FromRates :
         call' = [fn |-> "resample", n |-> n, from_rate |-> from_rate,
                  to_rate |-> WhisperRate,
                  result |-> Resample(n, from_rate, WhisperRate)]
    /\ returned' = NoRet
    /\ UNCHANGED <<CAPTURING, AUDIO_BUFFER, WHISPER_CONFIG, configLock, DEVICE_CONFIG,
                   STREAM_HANDLE, streams, pc, loc, workers, events, whisper_local,
                   ncalls, ncallbacks>>

ResampleNext == ResampleCall

\* samples_to_wav as a function of its argument: any number of samples up to
\* MaxSamples, silent, inside the scale, at full scale and beyond it.
WavAmps == {-2000, -1000, -500, 0, 500, 1000, 2000}

SamplesToWavCall ==
    /\ \E k \in 0..MaxSamples, amp \in WavAmps :
         call' = [fn |-> "samples_to_wav", k |-> k, amp |-> amp,
                  result |-> SamplesToWav(k, amp)]
    /\ returned' = NoRet
    /\ UNCHANGED <<CAPTURING, AUDIO_BUFFER, WHISPER_CONFIG, configLock, DEVICE_CONFIG,
                   STREAM_HANDLE, streams, pc, loc, workers, events, whisper_local,
                   ncalls, ncallbacks>>

WavNext == SamplesToWavCall

WavEncodeSpec == Init /\ [][WavNext]_vars

ResampleSpec == Init /\ [][ResampleNext]_vars

(* ------------------------------- C1 - C5 ------------------------------ *)

Listening == Event("voice:state", "start", 0)
LiveStreams == {s \in StreamIds : Live(s)}
OthersIdle(t) == \A u \in Threads \ {t} : pc[u] = "idle"

\* C1: a start_capture called while CAPTURING is set returns Ok(()) at once
\* (line 134) and changes neither the flag, the buffer's samples and sample
\* rate, any thread's stream slot, any stream nor the events emitted; as this
\* holds of every such call, it holds of any number of them in a row.
C1_StartIdempotent ==
    [][\A t \in Threads :
         (StartCall(t) /\ CAPTURING) =>
            /\ returned' = Returned(t, 134)
            /\ returned'.at \in StartOk
            /\ UNCHANGED <<CAPTURING, AUDIO_BUFFER, STREAM_HANDLE, streams, events,
                           workers, pc, loc>>]_vars

\* Two start_capture calls in a row have returned at line 134 after the one
\* that started the session.
C1_Witness ==
    /\ returned.at = 134
    /\ CAPTURING
    /\ ncalls = 3
    /\ CopiesIn(Listening, events) = 1
    /\ Cardinality(Built) = 1
    /\ \A t \in Threads : pc[t] = "idle"

\* C2: a stop_capture called while the session is stopped, with no other call
\* in progress, changes nothing: the flag stays false, the stream slots, the
\* streams and the buffer stay as they were.
C2_StopIdempotent ==
    [][\A t \in Threads :
         (StopFinish(t) /\ loc[t].was_stopped /\ ~CAPTURING /\ OthersIdle(t)) =>
            UNCHANGED <<CAPTURING, STREAM_HANDLE, streams, AUDIO_BUFFER>>]_vars

\* C3: at no time can the callbacks of two live streams append to the shared
\* buffer.
CanAppend(s) == Live(s) /\ (CAPTURING \/ streams[s].cb = "body")
C3_OneSession == Cardinality({s \in StreamIds : CanAppend(s)}) <= 1

\* C4: a start_capture that returns an error (no device at line 137, no
\* configuration at 150, build_input_stream at 266, play at 268) leaves the
\* CAPTURING flag as it was (false, unless another call has set it since this
\* one began), stores no stream in a slot, leaves no new stream live and
\* emits no event.
C4_SetupFailureAborts ==
    [][\A t \in Threads :
         (returned' = Returned(t, returned'.at) /\ returned'.at \in StartErr) =>
            /\ UNCHANGED <<CAPTURING, STREAM_HANDLE, events>>
            /\ \A s \in StreamIds : streams'[s].status = "live" => Live(s)
            /\ pc'[t] = "idle"]_vars

\* play() has failed on a stream that was built: the call has returned the
\* error, the session is stopped and nothing is listening.
C4_Witness ==
    /\ returned.at = 268
    /\ ~CAPTURING
    /\ Cardinality(Built) = 1
    /\ LiveStreams = {}
    /\ \A t \in Threads : STREAM_HANDLE[t] = 0
    /\ CopiesIn(Listening, events) = 0

\* C5: the error callback of a stream emits an error event and leaves the
\* session stopped.
C5_StreamErrorStops ==
    [][\A s \in StreamIds :
         StreamError(s) =>
            /\ CopiesIn(StreamErrorEvent, events') = CopiesIn(StreamErrorEvent, events) + 1
            /\ ~CAPTURING']_vars

(* ------------------------------- C6 - C10 ----------------------------- *)

TranscriptOf(w) == Event("voice:transcript", "worker", w)
ErrorOf(w) == Event("voice:error", "worker", w)
Finishes(w) == w <= Len(workers) /\ workers[w].st # "done" /\ workers'[w].st = "done"

\* C6: the step in which the transcription of a segment fails emits one error
\* event for that segment and nothing else, and changes neither the CAPTURING
\* flag, the buffer, a stream slot, a stream nor any other worker.
C6_FailureScoped ==
    [][\A w \in 1..MaxSegments :
         (Finishes(w) /\ ~workers'[w].result.ok) =>
            /\ events' = events (+) SetToBag({ErrorOf(w)})
            /\ UNCHANGED <<CAPTURING, AUDIO_BUFFER, STREAM_HANDLE, streams, pc, loc>>
            /\ Len(workers') = Len(workers)
            /\ \A v \in 1..Len(workers) : v # w => workers'[v] = workers[v]]_vars

\* The first segment's transcription has failed; the session is still
\* capturing and a callback holds the data that completes a loud window, which
\* its next step dispatches as the second segment.
C6_Witness ==
    /\ Len(workers) = 1
    /\ workers[1].st = "done"
    /\ ~workers[1].result.ok
    /\ CopiesIn(ErrorOf(1), events) = 1
    /\ CAPTURING
    /\ \E s \in StreamIds :
         /\ streams[s].cb = "body"
         /\ Dispatches(Appended(AUDIO_BUFFER.samples, streams[s].channels, streams[s].data),
                       AUDIO_BUFFER.sample_rate)

\* C7: a segment has no event before its transcription finishes; once it has,
\* it has one transcript event and no error event if the result is a text
\* that is not blank, one error event and no transcript event if the result is
\* an Err, and no event otherwise.  No event belongs to no segment.
C7_AtMostOneEvent ==
    /\ \A w \in 1..Len(workers) :
         LET r == workers[w].result
             finished == workers[w].st = "done"
             text == finished /\ r.ok /\ r.text \notin {None, "", " ", "  "}
             failed == finished /\ ~r.ok
         IN  /\ CopiesIn(TranscriptOf(w), events) = IF text THEN 1 ELSE 0
             /\ CopiesIn(ErrorOf(w), events) = IF failed THEN 1 ELSE 0
    /\ \A e \in BagToSet(events) : e.origin = "worker" => e.seg \in 1..Len(workers)

\* Two segments are finished: the one returned blank text and has no event,
\* the other failed and has its error event.
C7_Witness ==
    /\ Len(workers) = 2
    /\ workers[1].st = "done" /\ workers[1].result.ok /\ workers[1].result.text = "  "
    /\ workers[2].st = "done" /\ ~workers[2].result.ok
    /\ CopiesIn(ErrorOf(2), events) = 1
    /\ CopiesIn(ErrorOf(1), events) + CopiesIn(TranscriptOf(1), events) = 0

\* C8: when the callback's data brings the buffer to at least sample_rate
\* samples the buffer is emptied in that step, else the data stays buffered;
\* one worker is spawned, with the whole buffered sequence and the buffer's
\* rate, if the window is full and the mean square of all its samples exceeds
\* 0.01 squared, and none otherwise; a buffer of zeros spawns none.
C8_EnergyGate ==
    [][\A s \in StreamIds :
         CallbackBody(s) =>
            LET appended == Appended(AUDIO_BUFFER.samples, streams[s].channels,
                                     streams[s].data)
                rate == AUDIO_BUFFER.sample_rate
                full == SamplesLen(appended) >= rate
                loud == SumSquares(appended) > 100 * SamplesLen(appended)
                zero == \A i \in 1..Len(appended) : appended[i].v = 0
            IN  /\ AUDIO_BUFFER'.sample_rate = rate
                /\ AUDIO_BUFFER'.samples = IF full THEN << >> ELSE appended
                /\ (full /\ loud) =>
                      /\ Len(workers') = Len(workers) + 1
                      /\ SubSeq(workers', 1, Len(workers)) = workers
                      /\ workers'[Len(workers')].samples = appended
                      /\ workers'[Len(workers')].sample_rate = rate
                      /\ workers'[Len(workers')].st = "spawned"
                /\ ~(full /\ loud) => workers' = workers
                /\ zero => workers' = workers]_vars

\* A window of a quiet half second followed by a loud second has been
\* dispatched whole, as the one segment so far, and the buffer is empty.
C8_Witness ==
    /\ Len(workers) = 1
    /\ workers[1].st = "spawned"
    /\ Len(workers[1].samples) = 2
    /\ workers[1].samples[1].v < 10
    /\ SamplesLen(workers[1].samples) > workers[1].sample_rate
    /\ AUDIO_BUFFER.samples = << >>
    /\ ncallbacks = 2

Delivered(w) ==
    /\ w <= Len(workers)
    /\ workers[w].st = "done"
    /\ workers[w].result.ok \/ CopiesIn(ErrorOf(w), events) = 1
    /\ (workers[w].result.ok /\ workers[w].result.text = "hello world")
          => CopiesIn(TranscriptOf(w), events) = 1

\* C9: stop_capture leaves the workers as they are, and every segment that has
\* been dispatched is in the end transcribed, to a result or a failure, with
\* its transcript or error event delivered, whether or not the session has
\* been stopped meanwhile.
C9_WorkersOutliveStop ==
    /\ [][\A t \in Threads : (StopCall(t) \/ StopFinish(t)) => UNCHANGED workers]_vars
    /\ \A w \in 1..MaxSegments : (w <= Len(workers)) ~> Delivered(w)

\* stop_capture has just returned while a segment's backend call is in flight.
C9_Witness ==
    /\ returned.at = 297
    /\ ~CAPTURING
    /\ LiveStreams = {}
    /\ \E w \in 1..Len(workers) : workers[w].st = "calling"

LocalUsed == whisper_local /\ WHISPER_CONFIG.use_local /\ WHISPER_CONFIG.model_path # None

\* C10 (as amended): when the local engine is not used, with "groq" selected,
\* no Groq key and an OpenAI key, the attempt goes to OpenAI; with any other
\* provider selected and no OpenAI key the attempt ends in the placeholder
\* branch, whether or not a Groq key is present.
C10_FallbackToOpenai ==
    [][\A w \in 1..MaxSegments :
         WorkerStart(w) =>
            /\ (~LocalUsed /\ WHISPER_CONFIG.provider = "groq"
                  /\ WHISPER_CONFIG.groq_api_key = None /\ WHISPER_CONFIG.api_key # None)
                  => (workers'[w].backend = "openai" /\ workers'[w].st = "calling")
            /\ (~LocalUsed /\ WHISPER_CONFIG.provider # "groq"
                  /\ WHISPER_CONFIG.api_key = None)
                  => (workers'[w].backend = "placeholder" /\ workers'[w].st = "done")]_vars

\* With "groq" selected, no Groq key and an OpenAI key, the segment's call to
\* OpenAI is in flight.
C10_Witness ==
    /\ WHISPER_CONFIG.provider = "groq"
    /\ WHISPER_CONFIG.groq_api_key = None
    /\ WHISPER_CONFIG.api_key # None
    /\ ~WHISPER_CONFIG.use_local
    /\ workers[1].st = "calling"
    /\ workers[1].backend = "openai"

\* C10 as claimed: with no local engine configured, either remote provider
\* selected without its key and with the other's key sends the attempt to the
\* other provider.
C10_FallbackEitherWay ==
    [][\A w \in 1..MaxSegments :
         (WorkerStart(w) /\ ~WHISPER_CONFIG.use_local) =>
            /\ (WHISPER_CONFIG.provider = "groq"
                  /\ WHISPER_CONFIG.groq_api_key = None /\ WHISPER_CONFIG.api_key # None)
                  => workers'[w].backend = "openai"
            /\ (WHISPER_CONFIG.provider = "openai"
                  /\ WHISPER_CONFIG.api_key = None /\ WHISPER_CONFIG.groq_api_key # None)
                  => workers'[w].backend = "groq"]_vars

(* ------------------------------ C11 - C15 ----------------------------- *)

\* no credential at all and the local engine not used
NoBackendUsable ==
    /\ ~LocalUsed
    /\ WHISPER_CONFIG.api_key = None
    /\ WHISPER_CONFIG.groq_api_key = None

\* the number of samples of worker w's segment once at 16000 Hz
SamplesAt16k(w) ==
    LET n == SamplesLen(workers[w].samples)
    IN  IF workers[w].sample_rate = 48000 THEN n \div 3
        ELSE IF workers[w].sample_rate = 16000 THEN n
        ELSE (n * 16000) \div workers[w].sample_rate

\* C11: with no backend usable transcribe_audio returns at once, never an
\* Err: Ok(Some(placeholder text)) when the segment at 16000 Hz has more than
\* 8000 samples (0.5 s), Ok(None) when it has 8000 or fewer; and whenever the
\* placeholder branch is the one taken the result is decided that way.
C11_PlaceholderPolicy ==
    [][\A w \in 1..MaxSegments :
         WorkerStart(w) =>
            /\ NoBackendUsable => workers'[w].backend = "placeholder"
            /\ workers'[w].backend = "placeholder" =>
                  /\ workers'[w].st = "done"
                  /\ workers'[w].result.ok
                  /\ SamplesAt16k(w) > 8000 => workers'[w].result.text = PlaceholderText
                  /\ SamplesAt16k(w) <= 8000 => workers'[w].result.text = None
                  /\ configLock' = 0]_vars

\* A segment recorded at 48 kHz was transcribed with no backend usable and
\* got no text: it was no longer than 0.5 s once resampled.
C11_Witness ==
    /\ Len(workers) = 1
    /\ workers[1].st = "done"
    /\ workers[1].backend = "placeholder"
    /\ workers[1].sample_rate = 48000
    /\ workers[1].result.ok
    /\ workers[1].result.text = None
    /\ events = EmptyBag

\* the value a field holds after a call that passed it as given
Kept(given, before) == IF given # None THEN given ELSE before

\* C12: after configure_whisper every field passed as a value holds that
\* value, and every field passed as None (api_key, groq_api_key, model_path,
\* provider, model) holds the value it had before the call.
C12_KeepsUnspecified ==
    [][\A c \in RouterConfigCalls :
         ConfigureWhisper(c[1], c[2], c[3], c[4], c[5], c[6]) =>
            /\ WHISPER_CONFIG'.api_key = Kept(c[1], WHISPER_CONFIG.api_key)
            /\ WHISPER_CONFIG'.use_local = c[2]
            /\ WHISPER_CONFIG'.model_path = Kept(c[3], WHISPER_CONFIG.model_path)
            /\ WHISPER_CONFIG'.provider = Kept(c[4], WHISPER_CONFIG.provider)
            /\ WHISPER_CONFIG'.model = Kept(c[5], WHISPER_CONFIG.model)
            /\ WHISPER_CONFIG'.groq_api_key = Kept(c[6], WHISPER_CONFIG.groq_api_key)]_vars

\* C13: with a device selected and enumerated, that device is used; with a
\* device selected, the enumeration working and the device not in it, the
\* default device is used; with no device selected the default device is
\* used; resolution fails with "No input device available" only if there is
\* no default device, and does so whenever there is none and the selection is
\* absent or not enumerated.  (The one other failure is the enumeration itself
\* failing while a device is selected, which returns the enumeration's error.)
C13_DeviceResolution ==
    call.fn = "get_input_device" =>
        LET sel == call.selected
            h == call.host
            r == call.result
        IN  /\ (sel # None /\ h.enum_ok /\ sel \in h.inputs) => (r.ok /\ r.device = sel)
            /\ (sel # None /\ h.enum_ok /\ sel \notin h.inputs /\ h.default # None)
                  => (r.ok /\ r.device = h.default)
            /\ (sel = None /\ h.default # None) => (r.ok /\ r.device = h.default)
            /\ (r.err = NoInputDevice) => (~r.ok /\ h.default = None)
            /\ (h.default = None /\ (sel = None \/ (h.enum_ok /\ sel \notin h.inputs)))
                  => (~r.ok /\ r.err = NoInputDevice)
            /\ (sel # None /\ ~h.enum_ok) => (~r.ok /\ r.err # NoInputDevice)
            /\ r.ok => r.device \in h.inputs

\* A device that is not plugged in is selected, the host enumerates two other
\* devices, and the default one of them is what get_input_device returned.
C13_Witness ==
    /\ call.fn = "get_input_device"
    /\ call.selected = "Ghost Mic"
    /\ call.host.enum_ok
    /\ call.host.inputs = {"Built-in Mic", "USB Mic"}
    /\ call.host.default = "USB Mic"
    /\ call.result.ok
    /\ call.result.device = "USB Mic"

\* C14: resample from 48000 Hz to 16000 Hz of n samples returns n \div 3
\* samples; for every n, 0 included, and every output index the two input
\* indices read are inside 0..n-1, the upper one being the lower one plus
\* one, or n-1 where that would pass the end (which happens when upsampling);
\* from 48000 Hz the lower index of output i is 3i.
C14_ResampleInBounds ==
    call.fn = "resample" =>
        LET n == call.n
            r == call.result
        IN  /\ call.from_rate = 48000 => r.len = n \div 3
            /\ call.from_rate = 16000 => (r.len = n /\ DOMAIN r.idx_floor = {})
            /\ call.from_rate # 16000 =>
                  /\ DOMAIN r.idx_floor = 0..(r.len - 1)
                  /\ DOMAIN r.idx_ceil = 0..(r.len - 1)
            /\ \A i \in DOMAIN r.idx_floor :
                  /\ 0 <= r.idx_floor[i] /\ r.idx_floor[i] < n
                  /\ 0 <= r.idx_ceil[i] /\ r.idx_ceil[i] < n
                  /\ r.idx_ceil[i] \in {r.idx_floor[i], r.idx_floor[i] + 1}
                  /\ call.from_rate = 48000 => r.idx_floor[i] = 3 * i

\* resample was called with 40 samples at 48000 Hz: 13 samples came back, the
\* last of them read from input indices 36 and 37.
C14_Witness ==
    /\ call.fn = "resample"
    /\ call.from_rate = 48000
    /\ call.n = 40
    /\ call.result.len = 13
    /\ call.result.idx_floor[12] = 36
    /\ call.result.idx_ceil[12] = 37

\* C15: samples_to_wav of k samples succeeds for every k, 0 included, and
\* returns 44 + 2k bytes: the 44-byte header followed by two bytes for each
\* sample, every one of them a byte; with no samples it returns the header
\* alone.
C15_WavLength ==
    call.fn = "samples_to_wav" =>
        LET r == call.result
        IN  /\ r.ok
            /\ r.len = 44 + 2 * call.k
            /\ Len(r.data) = 2 * call.k
            /\ \A j \in 1..Len(r.data) : r.data[j] \in 0..255
            /\ call.k = 0 => (r.len = 44 /\ r.data = << >>)

\* Five samples at minus full scale were encoded: 54 bytes, the first sample
\* being -32767, that is 0x8001 low byte first.
C15_Witness ==
    /\ call.fn = "samples_to_wav"
    /\ call.k = 5
    /\ call.amp = -1000
    /\ call.result.ok
    /\ call.result.len = 54
    /\ call.result.data[1] = 1
    /\ call.result.data[2] = 128

(* ------------------------------ C16 - C20 ----------------------------- *)

\* C16: once stop_capture has returned (line 297), with no other call in
\* progress and the session stopped, no thread's slot holds a stream and no
\* stream is live to deliver callbacks, whichever thread ran the stop.
C16_StopReleasesStream ==
    (returned.at = 297 /\ ~CAPTURING /\ \A t \in Threads : pc[t] = "idle") =>
        /\ \A t \in Threads : STREAM_HANDLE[t] = 0
        /\ LiveStreams = {}

\* C17: no lock serializes transcription.  While a worker is inside its
\* backend call, configure_whisper can run, and any other worker that has
\* been spawned can go on to its own backend call.
C17_NoGlobalLock ==
    \A w \in 1..Len(workers) :
        workers[w].st = "calling" =>
            /\ ENABLED (\E c \in SessionConfigCalls :
                          ConfigureWhisper(c[1], c[2], c[3], c[4], c[5], c[6]))
            /\ \A v \in 1..Len(workers) :
                  workers[v].st = "spawned" => ENABLED WorkerStart(v)

\* C18: the CAPTURING flag, once stop_capture has cleared it, stays false
\* until a start_capture succeeds (the store of line 275, returning at 279),
\* and every invocation of a stream's callback that begins while it is false
\* returns at the check: the callback is not left running, the buffer gets
\* no sample, no worker is spawned and no event is emitted.
C18_StoppedCallbackSkips ==
    [][/\ (~CAPTURING /\ CAPTURING') => returned'.at = 279
       /\ \A s \in StreamIds :
            ((CallbackSkip(s) \/ CallbackEnter(s)) /\ ~CAPTURING) =>
               /\ returned' = Returned("callback", 191)
               /\ streams'[s].cb = "idle"
               /\ UNCHANGED <<AUDIO_BUFFER, workers, events, CAPTURING>>]_vars

\* A callback of the stream still held by the thread that started it has
\* returned at the check, after a stop made by the other thread: the session
\* is stopped, the buffer is empty and nothing was dispatched.
C18_Witness ==
    /\ returned = Returned("callback", 191)
    /\ ~CAPTURING
    /\ LiveStreams # {}
    /\ ncalls >= 2
    /\ AUDIO_BUFFER.samples = << >>
    /\ workers = << >>
    /\ \A t \in Threads : pc[t] = "idle"

\* C19: a transcription attempt calls at most one backend.  It begins once,
\* with no backend called before; the local engine is taken when it is
\* usable, else a remote provider when the configuration has a key it can
\* use, else the placeholder branch, which calls nothing.  When the backend
\* call returns, the attempt is over with exactly what the backend returned,
\* failure included, the backend it called is the one on record, and a
\* finished attempt does nothing more.
C19_OneBackendPerAttempt ==
    [][\A w \in 1..Len(workers) :
         /\ WorkerStart(w) =>
               /\ workers[w].backend = "none"
               /\ LocalUsed <=> workers'[w].backend = "local"
               /\ NoBackendUsable => workers'[w].backend = "placeholder"
               /\ workers'[w].backend \in {"groq", "openai"} =>
                     /\ ~LocalUsed
                     /\ workers'[w].backend = "groq" => WHISPER_CONFIG.groq_api_key # None
                     /\ workers'[w].backend = "openai" => WHISPER_CONFIG.api_key # None
               /\ workers'[w].backend = "placeholder" <=> workers'[w].st = "done"
               /\ workers'[w].backend # "placeholder" <=> workers'[w].st = "calling"
         /\ WorkerReturn(w) =>
               /\ workers'[w].st = "done"
               /\ workers'[w].backend = workers[w].backend
               /\ workers'[w].result \in BackendResults
               /\ ~workers'[w].result.ok =>
                     /\ workers'[w].result.text = "API error 500"
                     /\ events' = events (+) SetToBag({ErrorOf(w)})
         /\ workers[w].st = "done" => workers'[w] = workers[w]]_vars

\* The attempt went to Groq, whose call failed: the attempt is over with the
\* failure, reported as one error event, though an OpenAI key was configured.
C19_Witness ==
    /\ Len(workers) = 1
    /\ workers[1].st = "done"
    /\ workers[1].backend = "groq"
    /\ ~workers[1].result.ok
    /\ workers[1].result.text = "API error 500"
    /\ WHISPER_CONFIG.api_key # None
    /\ events = SetToBag({ErrorOf(1)})

\* C20: when an invocation of the input callback has returned, at the check
\* of line 191 or at the end of its body, the buffer holds fewer samples than
\* its sample rate, that is less than one window of one second.
C20_BufferBelowWindow ==
    returned.thread = "callback" =>
        SamplesLen(AUDIO_BUFFER.samples) < AUDIO_BUFFER.sample_rate

\* A callback has returned after completing a window of one second that was
\* below the energy threshold: nothing was dispatched and the buffer is
\* empty again.
C20_Witness ==
    /\ returned = Returned("callback", 259)
    /\ ncallbacks = 2
    /\ AUDIO_BUFFER.samples = << >>
    /\ AUDIO_BUFFER.sample_rate = 48000
    /\ workers = << >>
    /\ CAPTURING

(* ------------------------------ C21 - C24 ----------------------------- *)

\* C21: while a session lasts (the CAPTURING flag is set before and after the
\* step) the buffer's sample rate does not change, and every callback that
\* appends to the buffer belongs to a stream running at the buffer's rate.
C21_RateFixedInSession ==
    [][/\ (CAPTURING /\ CAPTURING') =>
             AUDIO_BUFFER'.sample_rate = AUDIO_BUFFER.sample_rate
       /\ \A s \in StreamIds :
             CallbackBody(s) => streams[s].rate = AUDIO_BUFFER.sample_rate]_vars

\* C22: the callback invocation that drains a segment from the buffer spawns
\* its worker in the same step, under the buffer's lock, behind every worker
\* spawned before: the workers spawned earlier keep their places and are not
\* touched, and nothing but a draining callback adds a worker.  Completion is
\* not ordered: a later segment's worker may finish first (the witness).
C22_DispatchInDrainOrder ==
    [][/\ Len(workers') >= Len(workers)
       /\ \A s \in StreamIds :
             (CallbackBody(s) /\ workers' # workers) =>
                /\ Len(workers') = Len(workers) + 1
                /\ \A w \in 1..Len(workers) : workers'[w] = workers[w]
                /\ workers'[Len(workers')].st = "spawned"
                /\ workers'[Len(workers')].samples =
                      Appended(AUDIO_BUFFER.samples, streams[s].channels, streams[s].data)
                /\ AUDIO_BUFFER'.samples = << >>
       /\ Len(workers') > Len(workers) => \E s \in StreamIds : CallbackBody(s)]_vars

\* The second segment's transcript has been delivered while the first
\* segment, dispatched before it, is not finished and has no event.
C22_Witness ==
    /\ Len(workers) = 2
    /\ workers[1].st # "done"
    /\ workers[2].st = "done"
    /\ CopiesIn(TranscriptOf(2), events) = 1
    /\ CopiesIn(TranscriptOf(1), events) + CopiesIn(ErrorOf(1), events) = 0

\* C23: whenever the session is stopped (the CAPTURING flag is false and no
\* start_capture or stop_capture is in progress) and no callback invocation
\* is in progress, the shared buffer is empty.
C23_StoppedBufferEmpty ==
    (/\ ~CAPTURING
     /\ \A t \in Threads : pc[t] = "idle"
     /\ \A s \in StreamIds : streams[s].cb = "idle")
        => AUDIO_BUFFER.samples = << >>

\* C24: every segment the callback has dispatched holds, until its worker is
\* finished with it, at least as many samples as the sample rate it was
\* dispatched with (one second), hence at least 16000 samples once at
\* 16000 Hz; and every worker that ended in the placeholder branch got the
\* placeholder text, never the empty result of a segment of 0.5 s or less.
C24_SegmentsAreWindows ==
    \A w \in 1..Len(workers) :
        /\ workers[w].st # "done" =>
              /\ SamplesLen(workers[w].samples) >= workers[w].sample_rate
              /\ SamplesAt16k(w) >= 16000
              /\ 2 * SamplesAt16k(w) > 16000
        /\ (workers[w].st = "done" /\ workers[w].backend = "placeholder") =>
              /\ workers[w].result = [ok |-> TRUE, text |-> PlaceholderText]
              /\ CopiesIn(TranscriptOf(w), events) = 1

\* Two segments captured at 48000 Hz with no backend configured: the first
\* got the placeholder transcript, the second waits for its worker with one
\* second of samples.
C24_Witness ==
    /\ Len(workers) = 2
    /\ WHISPER_CONFIG.api_key = None
    /\ workers[1].st = "done"
    /\ workers[1].backend = "placeholder"
    /\ workers[1].sample_rate = 48000
    /\ workers[1].result.text = PlaceholderText
    /\ CopiesIn(TranscriptOf(1), events) = 1
    /\ workers[2].st = "spawned"
    /\ SamplesLen(workers[2].samples) = 48000

====
